---------------------------- MODULE Spec2Model ----------------------------
(***************************************************************************)
(* Model of railway-server/app.py: the BasketballTracker (trajectory       *)
(* window, shot detection, outcome classification), the ball localizer     *)
(* over an abstract image-processing result, and the /analyze handler's    *)
(* per-frame loop and summary.                                             *)
(*                                                                         *)
(* Python values are represented as follows.                               *)
(*   None / a tuple (x, y)      : <<>> / <<x, y>>                          *)
(*   an optional dict key       : <<>> (absent) / <<v>> (present)          *)
(*   a float quotient a / b     : the reduced fraction [num, den], den > 0 *)
(*                                (IEEE rounding is not represented)       *)
(***************************************************************************)
EXTENDS Integers, Sequences, FiniteSets, TLC

VARIABLES
    trajectory,      \* tracker object -> self.trajectory (list of samples)
    last_position,   \* tracker object -> self.last_position
    tracker,         \* session -> the tracker object its local `tracker` names
    frames,          \* session -> request.json['frames']
    metadata,        \* session -> kind of request.json.get('metadata', {})
    i,               \* session -> number of frames the loop has consumed
    detected_shots,  \* session -> the local list detected_shots
    pc,              \* session -> "idle" | "loop" | "done"
    response,        \* session -> <<>> until the handler returns, then <<r>>
    reference,       \* tracker object -> every sample it accepted, none evicted
    call             \* the last direct call of a method: [op, args, ret]

vars == << trajectory, last_position, tracker, frames, metadata, i,
           detected_shots, pc, response, reference, call >>

trackerVars == << trajectory, last_position, reference >>

sessionVars == << tracker, frames, metadata, i, detected_shots, pc, response >>

-----------------------------------------------------------------------------
(* Program constants *)

WindowCapacity == 50

RecentCount == 5

ShotThreshold == 30

GoalXLow == 200

GoalXHigh == 280

GoalYLow == 50

GoalYHigh == 120

MinContourArea == 100

DefaultSpacing == 500

None == <<>>

Sessions == {1, 2}

Trackers == {1, 2}

-----------------------------------------------------------------------------
(* Arithmetic helpers *)

Abs(n) == IF n < 0 THEN -n ELSE n

RECURSIVE Gcd(_, _)
Gcd(a, b) == IF b = 0 THEN a ELSE Gcd(b, a % b)

\* Python's a / b for b # 0, as a fraction in lowest terms.
TrueDiv(a, b) ==
    LET g == Gcd(Abs(a), Abs(b))
        s == IF b < 0 THEN -1 ELSE 1
    IN  [num |-> (s * a) \div g, den |-> (s * b) \div g]

\* int(a / b) for a >= 0, b > 0: truncation.
IntDiv(a, b) == a \div b

\* seq[-n:]
LastN(seq, n) ==
    IF Len(seq) <= n THEN seq ELSE SubSeq(seq, Len(seq) - n + 1, Len(seq))

-----------------------------------------------------------------------------
(* BasketballTracker *)

Sample(position, timestamp) ==
    [position |-> position, timestamp |-> timestamp,
     x |-> position[1], y |-> position[2]]

\* The list after self.trajectory.append(...), before the size limit.
Appended(traj, position, timestamp) == Append(traj, Sample(position, timestamp))

\* Mutant: pop() in place of pop(0).
LimitDropsNewest(traj) ==
    IF Len(traj) > WindowCapacity THEN SubSeq(traj, 1, Len(traj) - 1) ELSE traj

\* Mutant: a window of 4 samples, fewer than detection reads.
LimitToFour(traj) == IF Len(traj) > RecentCount - 1 THEN Tail(traj) ELSE traj

\* if len(self.trajectory) > 50: self.trajectory.pop(0)
Limit(traj) == IF Len(traj) > WindowCapacity THEN Tail(traj) ELSE traj

\* Mutant: a call without a position empties the window.
UpdateTrajectoryResets(traj, position, timestamp) ==
    IF position = None THEN <<>>
    ELSE Limit(Appended(traj, position, timestamp))

\* self.trajectory after update(position, timestamp)
UpdateTrajectory(traj, position, timestamp) ==
    IF position = None THEN traj
    ELSE Limit(Appended(traj, position, timestamp))

\* Mutant: the assignment placed before the early return.
UpdateLastPositionAlways(last, position) == position

\* self.last_position after update(position, timestamp)
UpdateLastPosition(last, position) ==
    IF position = None THEN last ELSE position

\* y_changes over recent_trajectory
YChanges(recent) == [k \in 1..(Len(recent) - 1) |-> recent[k + 1].y - recent[k].y]

\* Mutant: <= in place of <.
RisingOrLevel(d) == d <= -ShotThreshold

Rising(d) == d < -ShotThreshold

Falling(d) == d > ShotThreshold

\* Mutant: only the newest pair of deltas is looked at.
DetectShotNewestPair(traj) ==
    IF Len(traj) < RecentCount THEN FALSE
    ELSE LET y_changes == YChanges(LastN(traj, RecentCount))
         IN  Rising(y_changes[Len(y_changes) - 1]) /\ Falling(y_changes[Len(y_changes)])

\* Mutant: without the minimum of 5 samples.
DetectShotAnyLength(traj) ==
    LET y_changes == YChanges(LastN(traj, RecentCount))
    IN  \E k \in 2..(Len(traj) - 1) :
            k <= Len(y_changes) /\ Rising(y_changes[k - 1]) /\ Falling(y_changes[k])

DetectShot(traj) ==
    IF Len(traj) < RecentCount THEN FALSE
    ELSE LET y_changes == YChanges(LastN(traj, RecentCount))
         IN  \E k \in 2..Len(y_changes) :
                 Rising(y_changes[k - 1]) /\ Falling(y_changes[k])

\* Mutant: the upper y bound exclusive.
InGoalAreaOpenTop(peak_x, peak_y) ==
    /\ GoalXLow <= peak_x /\ peak_x <= GoalXHigh
    /\ GoalYLow <= peak_y /\ peak_y < GoalYHigh

InGoalArea(peak_x, peak_y) ==
    /\ GoalXLow <= peak_x /\ peak_x <= GoalXHigh
    /\ GoalYLow <= peak_y /\ peak_y <= GoalYHigh

AnalyzeShotOutcome(peak_position) ==
    IF InGoalArea(peak_position[1], peak_position[2]) THEN "make" ELSE "miss"

\* The history of a tracker: what update accepted, with nothing evicted.
Accepted(ref, position, timestamp) ==
    IF position = None THEN ref ELSE Appended(ref, position, timestamp)

NoCall == [op |-> "none", args |-> <<>>, ret |-> <<>>]

\* tracker t's update(position, timestamp), called directly.
Update(t, position, timestamp) ==
    /\ trajectory' = [trajectory EXCEPT ![t] = UpdateTrajectory(@, position, timestamp)]
    /\ last_position' = [last_position EXCEPT ![t] = UpdateLastPosition(@, position)]
    /\ reference' = [reference EXCEPT ![t] = Accepted(@, position, timestamp)]
    /\ call' = [op |-> "update", args |-> << position, timestamp >>, ret |-> <<>>]
    /\ UNCHANGED sessionVars

\* analyze_shot_outcome(peak_position), called directly on the argument in call.
Classify ==
    /\ call.op = "analyze_shot_outcome"
    /\ call.ret = <<>>
    /\ call' = [call EXCEPT !.ret = << AnalyzeShotOutcome(call.args[1]) >>]
    /\ UNCHANGED << trackerVars, sessionVars >>

-----------------------------------------------------------------------------
(* detect_basketball_in_frame, over the result of the OpenCV calls.        *)
(* A decoded frame is [fault, circles, contours]: fault says that one of   *)
(* the calls raises; circles is the HoughCircles result as a list of       *)
(* <<x, y, radius>> (empty for None); contours is the findContours result  *)
(* as a list of [area, m00, m10, m01].                                     *)

\* max(circles, key=lambda c: c[2]): the first circle of maximal radius.
LargestCircle(circles) ==
    circles[CHOOSE k \in 1..Len(circles) :
                /\ \A j \in 1..Len(circles) : circles[j][3] <= circles[k][3]
                /\ \A j \in 1..(k - 1) : circles[j][3] < circles[k][3]]

\* max(contours, key=cv2.contourArea): the first contour of maximal area.
LargestContour(contours) ==
    contours[CHOOSE k \in 1..Len(contours) :
                 /\ \A j \in 1..Len(contours) : contours[j].area <= contours[k].area
                 /\ \A j \in 1..(k - 1) : contours[j].area < contours[k].area]

\* Mutant: >= in place of > on the area.
ContourCentroidAtLeast(contours) ==
    LET largest_contour == LargestContour(contours)
    IN  IF /\ largest_contour.area >= MinContourArea
           /\ largest_contour.m00 # 0
        THEN << IntDiv(largest_contour.m10, largest_contour.m00),
                IntDiv(largest_contour.m01, largest_contour.m00) >>
        ELSE None

ContourCentroid(contours) ==
    LET largest_contour == LargestContour(contours)
    IN  IF /\ largest_contour.area > MinContourArea
           /\ largest_contour.m00 # 0
        THEN << IntDiv(largest_contour.m10, largest_contour.m00),
                IntDiv(largest_contour.m01, largest_contour.m00) >>
        ELSE None

DetectBasketballInFrame(frame) ==
    IF frame.fault THEN None
    ELSE IF Len(frame.circles) > 0
         THEN << LargestCircle(frame.circles)[1], LargestCircle(frame.circles)[2] >>
    ELSE IF Len(frame.contours) > 0 THEN ContourCentroid(frame.contours)
    ELSE None

\* Mutant: a frame that fails to decode comes back as a blank image.
Base64ToOpencvImageBlank(data) ==
    << IF data.decodable THEN data.image
       ELSE [fault |-> FALSE, circles |-> <<>>, contours |-> <<>>] >>

\* base64_to_opencv_image: the decoded frame, or None when decoding fails.
Base64ToOpencvImage(data) == IF data.decodable THEN << data.image >> ELSE None

\* detect_basketball_in_frame(frame), called directly on the argument in call.
Locate ==
    /\ call.op = "detect_basketball_in_frame"
    /\ call.ret = <<>>
    /\ call' = [call EXCEPT !.ret = << DetectBasketballInFrame(call.args[1]) >>]
    /\ UNCHANGED << trackerVars, sessionVars >>

-----------------------------------------------------------------------------
(* Requests: frame descriptors and batches *)

MaxFrames == 6

MaxFaulty == 1

NoImage == [fault |-> FALSE, circles |-> <<>>, contours |-> <<>>]

\* A frame on which HoughCircles finds one circle centred at (x, y).
BallImage(x, y) == [fault |-> FALSE, circles |-> << <<x, y, 10>> >>, contours |-> <<>>]

FaultImage == [fault |-> TRUE, circles |-> <<>>, contours |-> <<>>]

FrameInfo(decodable, image, timestamp, width, height) ==
    [data      |-> << [decodable |-> decodable, image |-> image] >>,
     timestamp |-> timestamp, width |-> width, height |-> height]

\* A 480x360 frame with the ball located at (x, y), timestamp omitted.
BallFrame(x, y) == FrameInfo(TRUE, BallImage(x, y), <<>>, <<480>>, <<360>>)

\* The frame descriptors requests are made of; a batch lists them by their
\* place in this catalogue.
Catalogue ==
    << BallFrame(240, 40),
       BallFrame(240, 100),
       FrameInfo(FALSE, NoImage, <<>>, <<480>>, <<360>>),              \* undecodable
       FrameInfo(TRUE, NoImage, <<>>, <<480>>, <<360>>),               \* no ball
       FrameInfo(TRUE, FaultImage, <<>>, <<480>>, <<360>>),            \* localizer fault
       FrameInfo(TRUE, BallImage(240, 40), <<>>, <<480>>, <<0>>),      \* zero height
       FrameInfo(TRUE, BallImage(240, 100), <<>>, <<>>, <<360>>),      \* no width
       FrameInfo(TRUE, BallImage(280, 120), <<1234>>, <<960>>, <<720>>),
       BallFrame(240, 150),
       BallFrame(240, 110),
       BallFrame(240, 70),
       BallFrame(240, 90),
       [data |-> <<>>, timestamp |-> <<>>, width |-> <<480>>, height |-> <<360>>] >>

\* Frames of an ordinary batch.
PlainFrames == {1, 2}

\* Frames that fail somewhere or differ from the ordinary ones.
OddFrames == {3, 4, 5, 6, 7, 8}

\* Frames that make the loop body skip them or raise.
FailingFrames == {3, 5, 6, 13}

\* Ball heights 150, 110, 70, 40, 90.
ScenarioFrames == {9, 10, 11, 1, 12}

\* frames_data[k] of session s (k from 1).
FrameAt(s, k) == Catalogue[frames[s][k]]

\* The batches of at most n frames with at most f of them odd.
RECURSIVE BatchesOf(_, _, _, _)
BatchesOf(plain, odd, n, f) ==
    IF n = 0 THEN { <<>> }
    ELSE LET more  == BatchesOf(plain, odd, n - 1, f)
             fewer == IF f = 0 THEN {} ELSE BatchesOf(plain, odd, n - 1, f - 1)
         IN  { <<>> }
             \cup { <<x>> \o b : x \in plain, b \in more }
             \cup { <<x>> \o b : x \in odd, b \in fewer }

-----------------------------------------------------------------------------
(* analyze_frames: one pass of the loop body, and the summary *)

\* frame_info.get('timestamp', i * 500)
Timestamp(frame_info, idx) ==
    IF frame_info.timestamp = <<>> THEN idx * DefaultSpacing
    ELSE frame_info.timestamp[1]

\* if peak_position: (None is falsy, a 2-tuple is truthy)
Truthy(peak_position) == peak_position # None

\* Mutant: a division by zero goes through.
ShotDataRaisesOnMissing(frame_info) ==
    \/ frame_info.width = <<>>
    \/ frame_info.height = <<>>

\* Building shot_data raises KeyError on a missing 'width' or 'height' and
\* ZeroDivisionError on a zero one.
ShotDataRaises(frame_info) ==
    \/ frame_info.width = <<>>
    \/ frame_info.height = <<>>
    \/ frame_info.width[1] = 0
    \/ frame_info.height[1] = 0

Confidence == TrueDiv(75, 100)

\* Mutant: x divided by the height and y by the width.
ShotDataSwapsAxes(frame_info, idx, timestamp, peak_position) ==
    [timestamp   |-> timestamp,
     position    |-> [x |-> TrueDiv(peak_position[1], frame_info.height[1]),
                      y |-> TrueDiv(peak_position[2], frame_info.width[1])],
     result      |-> AnalyzeShotOutcome(peak_position),
     confidence  |-> Confidence,
     frame_index |-> idx]

\* Mutant: frames counted from 1.
ShotDataCountsFromOne(frame_info, idx, timestamp, peak_position) ==
    [timestamp   |-> timestamp,
     position    |-> [x |-> TrueDiv(peak_position[1], frame_info.width[1]),
                      y |-> TrueDiv(peak_position[2], frame_info.height[1])],
     result      |-> AnalyzeShotOutcome(peak_position),
     confidence  |-> Confidence,
     frame_index |-> idx + 1]

ShotData(frame_info, idx, timestamp, peak_position) ==
    [timestamp   |-> timestamp,
     position    |-> [x |-> TrueDiv(peak_position[1], frame_info.width[1]),
                      y |-> TrueDiv(peak_position[2], frame_info.height[1])],
     result      |-> AnalyzeShotOutcome(peak_position),
     confidence  |-> Confidence,
     frame_index |-> idx]

\* Mutant: one tracker object for every request.
SharedTracker(s) == 1

\* The tracker object a session's local variable `tracker` is bound to:
\* tracker = BasketballTracker() creates one per request.
NewTracker(s) == s

\* The frame the loop is at, its outcome up to tracker.update.
DecodedFrame(frame_info) ==
    IF frame_info.data = <<>> THEN None
    ELSE Base64ToOpencvImage(frame_info.data[1])

\* The shots list after the loop body has run on frame_info with the
\* tracker in state (traj, last).
ShotsAfter(shots, frame_info, idx, traj, last) ==
    IF /\ DetectShot(traj)
       /\ Truthy(last)
       /\ ~ShotDataRaises(frame_info)
    THEN Append(shots, ShotData(frame_info, idx, Timestamp(frame_info, idx), last))
    ELSE shots

\* Whether the loop body raises on frame_info with the tracker in state
\* (traj, last) after tracker.update: KeyError on a missing 'data', or an
\* error while shot_data is built.
BodyRaises(frame_info, traj, last) ==
    \/ frame_info.data = <<>>
    \/ /\ DecodedFrame(frame_info) # None
       /\ DetectShot(traj)
       /\ Truthy(last)
       /\ ShotDataRaises(frame_info)

\* Mutant: the error leaves the loop.
OnFrameErrorAborts(idx) == "failed"

\* except Exception as frame_error: print(...); continue
OnFrameError(idx) == "loop"

ProcessFrame(s) ==
    /\ pc[s] = "loop"
    /\ i[s] < Len(frames[s])
    /\ LET idx        == i[s]
           frame_info == FrameAt(s, idx + 1)
           frame      == DecodedFrame(frame_info)
           t          == tracker[s]
           ball_position == IF frame = None THEN None
                            ELSE DetectBasketballInFrame(frame[1])
           timestamp  == Timestamp(frame_info, idx)
           traj       == UpdateTrajectory(trajectory[t], ball_position, timestamp)
           last       == UpdateLastPosition(last_position[t], ball_position)
       IN  /\ i' = [i EXCEPT ![s] = idx + 1]
           /\ pc' = [pc EXCEPT ![s] = IF BodyRaises(frame_info, traj, last)
                                      THEN OnFrameError(idx) ELSE "loop"]
           /\ IF frame = None
              THEN UNCHANGED << trajectory, last_position, reference, detected_shots >>
              ELSE /\ trajectory' = [trajectory EXCEPT ![t] = traj]
                   /\ last_position' = [last_position EXCEPT ![t] = last]
                   /\ reference' = [reference EXCEPT
                                        ![t] = Accepted(@, ball_position, timestamp)]
                   /\ detected_shots' =
                          [detected_shots EXCEPT
                              ![s] = ShotsAfter(@, frame_info, idx, traj, last)]
    /\ UNCHANGED << tracker, frames, metadata, response, call >>

CountMakes(shots) == Cardinality({k \in 1..Len(shots) : shots[k].result = "make"})

\* Mutant: // in place of /.
FgPercentageFloored(makes, total_attempts) ==
    IF total_attempts > 0 THEN TrueDiv((makes * 100) \div total_attempts, 1)
    ELSE TrueDiv(0, 1)

FgPercentage(makes, total_attempts) ==
    IF total_attempts > 0 THEN TrueDiv(makes * 100, total_attempts)
    ELSE TrueDiv(0, 1)

Summary(shots) ==
    LET total_attempts == Len(shots)
        makes          == CountMakes(shots)
        misses         == total_attempts - makes
    IN  [total_attempts |-> total_attempts,
         makes          |-> makes,
         misses         |-> misses,
         fg_percentage  |-> FgPercentage(makes, total_attempts)]

\* The body of the 200 response; **metadata raises TypeError unless the
\* request's metadata is a mapping, and the outer handler answers 500.
Result(shots, batch, meta) ==
    IF meta = "mapping"
    THEN [status |-> 200, shots |-> shots, summary |-> Summary(shots),
          frames_processed |-> Len(batch)]
    ELSE [status |-> 500, error |-> "Analysis failed"]

Finish(s) ==
    /\ pc[s] = "loop"
    /\ i[s] = Len(frames[s])
    /\ pc' = [pc EXCEPT ![s] = "done"]
    /\ response' = [response EXCEPT
                       ![s] = << Result(detected_shots[s], frames[s], metadata[s]) >>]
    /\ UNCHANGED << trackerVars, tracker, frames, metadata, i, detected_shots, call >>

-----------------------------------------------------------------------------
(* Specifications *)

\* The sessions in `active` have entered the loop (tracker and shot list
\* just created) on a batch of `batches`; the others have no request.
InitWith(active, batches, metas) ==
    /\ tracker = [s \in Sessions |-> NewTracker(s)]
    /\ trajectory = [t \in Trackers |-> <<>>]
    /\ last_position = [t \in Trackers |-> None]
    /\ reference = [t \in Trackers |-> <<>>]
    /\ \E b \in [active -> batches] :
           frames = [s \in Sessions |-> IF s \in active THEN b[s] ELSE <<>>]
    /\ \E m \in [active -> metas] :
           metadata = [s \in Sessions |-> IF s \in active THEN m[s] ELSE "mapping"]
    /\ i = [s \in Sessions |-> 0]
    /\ detected_shots = [s \in Sessions |-> <<>>]
    /\ pc = [s \in Sessions |-> IF s \in active THEN "loop" ELSE "idle"]
    /\ response = [s \in Sessions |-> <<>>]

\* One session, on any batch of at most MaxFrames frames of which at most
\* MaxFaulty are odd.
Init ==
    /\ InitWith({1}, BatchesOf(PlainFrames, OddFrames, MaxFrames, MaxFaulty), {"mapping"})
    /\ call = NoCall

Next == \E s \in Sessions : ProcessFrame(s) \/ Finish(s)

Spec == Init /\ [][Next]_vars

\* One session on batches of located balls at heights 150, 110, 70, 40, 90.
InitScenario ==
    /\ InitWith({1}, BatchesOf(ScenarioFrames, {}, MaxFrames, 0), {"mapping"})
    /\ call = NoCall

SpecScenario == InitScenario /\ [][Next]_vars

\* One session on longer batches of ordinary frames and frames without a
\* ball.
MaxLongFrames == 8

InitLong ==
    /\ InitWith({1}, BatchesOf(PlainFrames \cup {4}, {}, MaxLongFrames, 0), {"mapping"})
    /\ call = NoCall

SpecLong == InitLong /\ [][Next]_vars

\* Two sessions at once, each on its own batch of ordinary frames.
MaxSessionFrames == 5

InitSessions ==
    /\ InitWith(Sessions, BatchesOf(PlainFrames, {}, MaxSessionFrames, 0), {"mapping"})
    /\ call = NoCall

SpecSessions == InitSessions /\ [][Next]_vars

\* One session on batches in which up to MaxFaulty + 1 frames fail, with
\* metadata of either kind.
InitBestEffort ==
    /\ InitWith({1}, BatchesOf(PlainFrames, FailingFrames, MaxFrames, MaxFaulty + 1),
                {"mapping", "other"})
    /\ call = NoCall

SpecBestEffort == InitBestEffort /\ [][Next]_vars

\* One session on batches of ordinary frames and frames that do not decode.
MaxSkipFrames == 7

InitSkips ==
    /\ InitWith({1}, BatchesOf(PlainFrames \cup {3}, {}, MaxSkipFrames, 0), {"mapping"})
    /\ call = NoCall

SpecSkips == InitSkips /\ [][Next]_vars

-----------------------------------------------------------------------------
(* The tracker driven directly: update called on tracker 1 with positions  *)
(* (or None) from a small set, the k-th accepted sample stamped k * 500    *)
(* plus the input's offset.                                                *)

MaxSamples == 7

TrackerInputs ==
    { << <<240, 0>>, 0 >>, << <<240, 30>>, 0 >>, << <<240, 61>>, 0 >>,
      << <<100, 30>>, 250 >>, << None, 0 >> }

NoSessions == InitWith({}, {<<>>}, {"mapping"})

InitTracker == NoSessions /\ call = NoCall

NextTracker ==
    \E in \in TrackerInputs :
        /\ Len(reference[1]) < MaxSamples
        /\ Update(1, in[1], Len(reference[1]) * DefaultSpacing + in[2])

SpecTracker == InitTracker /\ [][NextTracker]_vars

(* The tracker driven past its capacity: a fixed run of WindowPrefixLen    *)
(* samples, then free choices up to MaxWindowSamples accepted samples,     *)
(* None allowed at every call.                                             *)

WindowPrefixLen == 46

MaxWindowSamples == 53

WindowCycle == << 150, 110, 70, 40, 90 >>

WindowInputs(n) ==
    { None } \cup
    IF n < WindowPrefixLen
    THEN { << 240, WindowCycle[(n % Len(WindowCycle)) + 1] >> }
    ELSE { << 240, 40 >>, << 240, 100 >>, << 100, 160 >> }

NextWindow ==
    \E position \in WindowInputs(Len(reference[1])) :
        /\ Len(reference[1]) < MaxWindowSamples
        /\ Update(1, position, Len(reference[1]) * DefaultSpacing)

SpecWindow == InitTracker /\ [][NextWindow]_vars

(* analyze_shot_outcome called directly on one pixel position *)

PeakXs == (198..282) \cup {0, 479}

PeakYs == (48..122) \cup {0, 359}

InitOutcome ==
    /\ NoSessions
    /\ \E x \in PeakXs, y \in PeakYs :
           call = [op |-> "analyze_shot_outcome", args |-> << <<x, y>> >>, ret |-> <<>>]

SpecOutcome == InitOutcome /\ [][Classify]_vars

(* detect_basketball_in_frame called directly on one image-processing      *)
(* result: up to MaxShapes circles and up to MaxShapes contours, with or   *)
(* without a fault.                                                        *)

MaxShapes == 2

CircleShapes == { <<10, 20, 5>>, <<30, 40, 8>>, <<50, 60, 8>> }

ContourShapes ==
    { [area |-> 50,  m00 |-> 4, m10 |-> 6,   m01 |-> 9],
      [area |-> 100, m00 |-> 4, m10 |-> 10,  m01 |-> 22],
      [area |-> 101, m00 |-> 4, m10 |-> 14,  m01 |-> 30],
      [area |-> 200, m00 |-> 0, m10 |-> 0,   m01 |-> 0],
      [area |-> 200, m00 |-> 8, m10 |-> 100, m01 |-> 44] }

ListsUpTo(S, n) == UNION { [1..k -> S] : k \in 0..n }

InitLocalizer ==
    /\ NoSessions
    /\ \E fault \in BOOLEAN,
          circles \in ListsUpTo(CircleShapes, MaxShapes),
          contours \in ListsUpTo(ContourShapes, MaxShapes) :
           call = [op   |-> "detect_basketball_in_frame",
                   args |-> << [fault |-> fault, circles |-> circles,
                                contours |-> contours] >>,
                   ret  |-> <<>>]

SpecLocalizer == InitLocalizer /\ [][Locate]_vars

-----------------------------------------------------------------------------
(* Properties *)

\* C1: after any sequence of update calls the window holds at most 50
\* samples, and it is the most recent min(n, 50) of the n samples accepted
\* so far, in insertion order (the oldest is the one evicted).
C1_WindowIsNewestFifty ==
    LET traj == trajectory[1]
        ref  == reference[1]
        keep == IF Len(ref) < 50 THEN Len(ref) ELSE 50
    IN  /\ Len(traj) <= 50
        /\ Len(traj) = keep
        /\ \A k \in 1..keep : traj[k] = ref[Len(ref) - keep + k]

\* A 52nd sample has been accepted, after a call with None, and the two
\* oldest samples are gone.
C1_Witness ==
    /\ Len(reference[1]) = 52
    /\ Len(trajectory[1]) = 50
    /\ trajectory[1][1] = reference[1][3]
    /\ \E k \in 1..50 : trajectory[1][k].y = 160
    /\ call.args[1] = None

\* C2: detect_shot is true exactly when the window holds at least 5
\* samples and, among the 4 vertical deltas of the 5 newest samples, a
\* delta < -30 is immediately followed by a delta > +30; x, timestamps and
\* older samples play no part.
C2_DetectShotIff ==
    LET traj == trajectory[1]
        n    == Len(traj)
    IN  DetectShot(traj) <=>
            /\ n >= 5
            /\ \E k \in (n - 3)..(n - 1) :
                   /\ traj[k].y - traj[k - 1].y < -30
                   /\ traj[k + 1].y - traj[k].y > 30

\* Seven samples, the newest three with deltas -31 then +31 (the apex at
\* x = 100, the others at x = 240): detected.
C2_Witness ==
    LET traj == trajectory[1]
        n    == Len(traj)
    IN  /\ n = 7
        /\ traj[n - 1].y - traj[n - 2].y = -31
        /\ traj[n].y - traj[n - 1].y = 31
        /\ traj[n - 1].x = 100
        /\ DetectShot(traj)

\* C6: analyze_shot_outcome is 'make' exactly for 200 <= x <= 280 and
\* 50 <= y <= 120, all four bounds inclusive, and 'miss' otherwise.
C6_MakeIffInGoal ==
    (call.op = "analyze_shot_outcome" /\ call.ret # <<>>) =>
        LET x == call.args[1][1]
            y == call.args[1][2]
        IN  /\ call.ret[1] \in {"make", "miss"}
            /\ call.ret[1] = "make" <=> (200 <= x /\ x <= 280 /\ 50 <= y /\ y <= 120)
            /\ (x = 200 /\ y = 50) => call.ret[1] = "make"
            /\ (x = 280 /\ y = 120) => call.ret[1] = "make"
            /\ (x = 199 /\ y = 50) => call.ret[1] = "miss"

\* The corner (280, 120) has been classified a make.
C6_Witness ==
    /\ call.op = "analyze_shot_outcome"
    /\ call.args = << <<280, 120>> >>
    /\ call.ret = << "make" >>

\* Whether the loop locates a ball in frame_info.
Located(frame_info) ==
    /\ DecodedFrame(frame_info) # None
    /\ DetectBasketballInFrame(DecodedFrame(frame_info)[1]) # None

\* The number of frames with a located ball among the first n of session s.
LocatedCount(s, n) == Cardinality({ j \in 1..n : Located(FrameAt(s, j)) })

\* The batch of C3: six located balls at heights 150, 110, 70, 40, 90, 150
\* in 480x360 frames without timestamps.
Fixture == << 9, 10, 11, 1, 12, 9 >>

\* C3 as stated: the fixture batch yields exactly one ShotRecord, at the
\* first frame index after which detect_shot holds, and total_attempts 1.
C3_Original ==
    (pc[1] = "done" /\ frames[1] = Fixture) =>
        LET r == response[1][1]
        IN  /\ Len(r.shots) = 1
            /\ r.summary.total_attempts = 1
            /\ \E k \in 0..5 :
                   /\ r.shots[1].frame_index = k
                   /\ DetectShot(SubSeq(reference[1], 1, k + 1))
                   /\ \A j \in 0..(k - 1) : ~DetectShot(SubSeq(reference[1], 1, j + 1))

\* C3 (amended): the fixture batch yields no ShotRecord at any point of the
\* loop, and its summary has total_attempts 0: the only ascent followed by
\* a descent is the delta 70 -> 40 = -30, which is not below -30.
C3_FixtureYieldsNoShot ==
    frames[1] = Fixture =>
        /\ detected_shots[1] = <<>>
        /\ pc[1] = "done" =>
               /\ response[1][1].status = 200
               /\ response[1][1].shots = <<>>
               /\ response[1][1].summary.total_attempts = 0

\* The fixture batch has been analyzed to the end: six samples accepted,
\* stamped 0, 500, ..., 2500.
C3_Witness ==
    /\ pc[1] = "done"
    /\ frames[1] = Fixture
    /\ [k \in 1..6 |-> reference[1][k].y] = << 150, 110, 70, 40, 90, 150 >>
    /\ [k \in 1..6 |-> reference[1][k].timestamp] = << 0, 500, 1000, 1500, 2000, 2500 >>

\* C4: detect_shot is false while fewer than 5 samples have been accepted,
\* and every ShotRecord belongs to a frame at or after the 5th frame with a
\* located ball.
C4_NoShotBeforeFive ==
    \A s \in Sessions :
        /\ Len(trajectory[tracker[s]]) < 5 => ~DetectShot(trajectory[tracker[s]])
        /\ \A k \in 1..Len(detected_shots[s]) :
               LocatedCount(s, detected_shots[s][k].frame_index + 1) >= 5

\* Four samples 100, 40, 100, 40 (a reversal beyond the threshold among
\* them) after five frames, one of them skipped: no record yet.
C4_Witness ==
    /\ i[1] = 5
    /\ Len(trajectory[1]) = 4
    /\ [k \in 1..4 |-> trajectory[1][k].y] = << 100, 40, 100, 40 >>
    /\ detected_shots[1] = <<>>

C8_ShotRecordFields ==
    [][ \A s \in Sessions :
          i'[s] = i[s] + 1 =>
            LET f == FrameAt(s, i[s] + 1)
                t == tracker[s]
                p == last_position'[t]
                n == Len(detected_shots[s])
            IN  ( /\ DecodedFrame(f) # None
                  /\ DetectShot(trajectory'[t])
                  /\ f.width # <<>> /\ f.height # <<>>
                  /\ f.width[1] # 0 /\ f.height[1] # 0 ) =>
                    /\ Len(detected_shots'[s]) = n + 1
                    /\ SubSeq(detected_shots'[s], 1, n) = detected_shots[s]
                    /\ p = trajectory'[t][Len(trajectory'[t])].position
                    /\ LET r == detected_shots'[s][n + 1]
                       IN  /\ r.frame_index = i[s]
                           /\ r.timestamp = IF f.timestamp = <<>> THEN i[s] * 500
                                            ELSE f.timestamp[1]
                           /\ r.position.x.den > 0 /\ r.position.y.den > 0
                           /\ r.position.x.num * f.width[1] = p[1] * r.position.x.den
                           /\ r.position.y.num * f.height[1] = p[2] * r.position.y.den
                           /\ r.result = IF /\ 200 <= p[1] /\ p[1] <= 280
                                            /\ 50 <= p[2] /\ p[2] <= 120
                                         THEN "make" ELSE "miss"
                           /\ r.confidence.num * 4 = 3 * r.confidence.den
      ]_vars

\* The first frame was undecodable and the sixth produced a record: its
\* frame_index is 5 and its timestamp 2500.
C8_Witness ==
    /\ Len(frames[1]) = 6
    /\ frames[1][1] = 3
    /\ Len(detected_shots[1]) = 1
    /\ detected_shots[1][1].frame_index = 5
    /\ detected_shots[1][1].timestamp = 2500
    /\ detected_shots[1][1].position = [x |-> [num |-> 1, den |-> 2], y |-> [num |-> 5, den |-> 18]]

\* C5: on every batch, whichever frames fail (undecodable, localizer
\* fault, error while the shot record is built), the loop takes the frames
\* one by one in batch order, reaches the end and returns {shots, summary};
\* no frame failure stops the loop or makes the outcome an error (the only
\* error outcome left is request metadata that is no mapping).  Termination
\* is stated as: the index only ever grows by one, up to the batch length,
\* and until the session is done a step is always possible (a frame is
\* left for the loop body, or the summary step is enabled).
C5_BestEffort ==
    /\ [](\A s \in Sessions :
            /\ pc[s] \in {"idle", "loop", "done"}
            /\ i[s] <= Len(frames[s])
            /\ pc[s] = "done" =>
                   /\ i[s] = Len(frames[s])
                   /\ response[s] # <<>>
                   /\ response[s][1].status = 500 => metadata[s] # "mapping"
                   /\ metadata[s] = "mapping" =>
                          /\ response[s][1].status = 200
                          /\ response[s][1].shots = detected_shots[s]
                          /\ response[s][1].summary.total_attempts = Len(detected_shots[s])
                          /\ response[s][1].frames_processed = Len(frames[s]))
    /\ [](\A s \in Sessions :
            pc[s] = "loop" => (i[s] < Len(frames[s]) \/ ENABLED Finish(s)))
    /\ [][\A s \in Sessions :
            /\ i'[s] # i[s] => (i'[s] = i[s] + 1 /\ pc[s] = "loop" /\ pc'[s] = "loop")
            /\ pc'[s] # pc[s] => (pc[s] = "loop" /\ pc'[s] = "done")]_vars

\* A batch whose first frame is undecodable and whose sixth raises while
\* its shot record is built (detect_shot holds, height 0) has been analyzed
\* to the end with a 200 result.
C5_Witness ==
    /\ pc[1] = "done"
    /\ Len(frames[1]) = 6
    /\ frames[1][1] = 3
    /\ frames[1][6] = 6
    /\ DetectShot(trajectory[1])
    /\ response[1][1].status = 200
    /\ response[1][1].shots = <<>>

\* The samples j-2, j-1, j of traj rise by more than 30 and then fall by
\* more than 30: an apex at j-1, its delta pair completed by sample j.
ApexEndsAt(traj, j) ==
    /\ j >= 3
    /\ j <= Len(traj)
    /\ traj[j - 1].y - traj[j - 2].y < -30
    /\ traj[j].y - traj[j - 1].y > 30

\* The index (from 0) of the frame that delivered the m-th sample.
FrameOfSample(s, m) ==
    (CHOOSE j \in 1..i[s] : Located(FrameAt(s, j)) /\ LocatedCount(s, j) = m) - 1

HasRecordAt(s, idx) ==
    \E k \in 1..Len(detected_shots[s]) : detected_shots[s][k].frame_index = idx

\* C9: detections are not deduplicated.  When an apex pair is completed by
\* a sample that makes the window at least 5 long, the frame of that sample
\* and the frames of the next two accepted samples each get a ShotRecord
\* (detect_shot holds after each); after a third further accepted sample
\* that pair alone no longer makes detect_shot hold.
C9_NoDeduplication ==
    LET traj == trajectory[1]
        n    == Len(traj)
    IN  /\ \A a \in 0..2 :
               (n - a >= 5 /\ ApexEndsAt(traj, n - a)) =>
                   /\ DetectShot(traj)
                   /\ \A m \in (n - a)..n : HasRecordAt(1, FrameOfSample(1, m))
        /\ ( /\ n >= 6
             /\ ApexEndsAt(traj, n - 3)
             /\ \A a \in 0..2 : ~ApexEndsAt(traj, n - a) ) =>
                   /\ ~DetectShot(traj)
                   /\ ~HasRecordAt(1, FrameOfSample(1, n))

\* Seven located frames 40, 40, 100, 40, 100, 100, 100: the one apex
\* (samples 3-5) has produced three ShotRecords, at frames 4, 5 and 6.
C9_Witness ==
    /\ i[1] = 7
    /\ [k \in 1..Len(trajectory[1]) |-> trajectory[1][k].y]
           = << 40, 40, 100, 40, 100, 100, 100 >>
    /\ [k \in 1..Len(detected_shots[1]) |-> detected_shots[1][k].frame_index]
           = << 4, 5, 6 >>

\* What a session holds after k frames of batch when it runs alone, from a
\* fresh tracker and an empty shot list.
RECURSIVE Alone(_, _)
Alone(batch, k) ==
    IF k = 0 THEN [traj |-> <<>>, last |-> None, shots |-> <<>>]
    ELSE LET prev       == Alone(batch, k - 1)
             frame_info == Catalogue[batch[k]]
             frame      == DecodedFrame(frame_info)
         IN  IF frame = None THEN prev
             ELSE LET position == DetectBasketballInFrame(frame[1])
                      timestamp == Timestamp(frame_info, k - 1)
                      traj == UpdateTrajectory(prev.traj, position, timestamp)
                      last == UpdateLastPosition(prev.last, position)
                  IN  [traj  |-> traj,
                       last  |-> last,
                       shots |-> ShotsAfter(prev.shots, frame_info, k - 1, traj, last)]

\* C10: with two sessions in progress at once, in any interleaving, each
\* session's window, last position, shot list and returned result are
\* those of the same batch analyzed alone.
C10_SessionsIndependent ==
    \A s \in Sessions :
        LET alone == Alone(frames[s], i[s])
        IN  /\ trajectory[tracker[s]] = alone.traj
            /\ last_position[tracker[s]] = alone.last
            /\ detected_shots[s] = alone.shots
            /\ pc[s] = "done" =>
                   response[s] = << Result(alone.shots, frames[s], metadata[s]) >>

\* Both sessions are in their loops, five frames in, each with a record of
\* its own, and the two records differ.
C10_Witness ==
    /\ pc[1] = "loop" /\ pc[2] = "loop"
    /\ i[1] = 5 /\ i[2] = 5
    /\ Len(detected_shots[1]) = 1 /\ Len(detected_shots[2]) = 1
    /\ detected_shots[1][1].result = "make"
    /\ detected_shots[2][1].result = "miss"

\* C11: update with None changes neither the window (contents and order)
\* nor the last accepted position; update with a position puts exactly one
\* sample {position, timestamp, x, y} at the end of the window, makes the
\* position the last accepted one and leaves the retained older samples as
\* they were (all of them, or all but the oldest when the window was full).
C11_UpdateEffect ==
    [][ call'.op = "update" =>
          LET position  == call'.args[1]
              timestamp == call'.args[2]
              old       == trajectory[1]
              new       == trajectory'[1]
          IN  IF position = <<>>
              THEN /\ new = old
                   /\ last_position'[1] = last_position[1]
              ELSE /\ Len(new) >= 1
                   /\ new[Len(new)] = [position |-> position, timestamp |-> timestamp,
                                       x |-> position[1], y |-> position[2]]
                   /\ SubSeq(new, 1, Len(new) - 1) =
                          IF Len(old) < 50 THEN old ELSE SubSeq(old, 2, Len(old))
                   /\ last_position'[1] = position
      ]_vars

\* update was called with None on a full window from which two samples
\* have been evicted, after (100, 160) had been accepted: the window still
\* ends with that sample and it is still the last accepted position.
C11_Witness ==
    /\ call.op = "update"
    /\ call.args[1] = <<>>
    /\ Len(reference[1]) = 52
    /\ Len(trajectory[1]) = 50
    /\ trajectory[1][50] = [position |-> <<100, 160>>, timestamp |-> 25500,
                            x |-> 100, y |-> 160]
    /\ last_position[1] = <<100, 160>>

\* The frame has image data and the data does not decode.
Undecodable(frame_info) ==
    /\ frame_info.data # <<>>
    /\ ~frame_info.data[1].decodable

\* C12: a frame whose decoding fails is skipped entirely: the step that
\* consumes it leaves the window, the last accepted position and the shot
\* list as they were (also when detect_shot holds on the window, so it is
\* not evaluated for the frame) and the loop goes on; the index advances by
\* one all the same, so every sample and every record of a later frame
\* carries that frame's own place in the batch and its default timestamp
\* (place * 500), and no record belongs to an undecodable frame.
C12_UndecodableSkipped ==
    /\ [][ \A s \in Sessions :
            /\ i'[s] # i[s] => i'[s] = i[s] + 1
            /\ (i'[s] = i[s] + 1 /\ Undecodable(FrameAt(s, i[s] + 1))) =>
                   /\ trajectory'[tracker[s]] = trajectory[tracker[s]]
                   /\ last_position'[tracker[s]] = last_position[tracker[s]]
                   /\ detected_shots'[s] = detected_shots[s]
                   /\ pc'[s] = "loop"
          ]_vars
    /\ [](\A s \in Sessions :
            /\ \A k \in 1..Len(detected_shots[s]) :
                   LET r == detected_shots[s][k]
                   IN  /\ r.frame_index \in 0..(i[s] - 1)
                       /\ ~Undecodable(FrameAt(s, r.frame_index + 1))
                       /\ r.timestamp = r.frame_index * 500
            /\ LET decodable == { j \in 1..i[s] : ~Undecodable(FrameAt(s, j)) }
                   window    == trajectory[tracker[s]]
               IN  /\ Len(window) = Cardinality(decodable)
                   /\ \A m \in 1..Len(window) :
                          \E j \in decodable :
                              /\ Cardinality({ h \in decodable : h <= j }) = m
                              /\ window[m].timestamp = (j - 1) * 500)

\* The batch 100, 100, 40, 100, 100, undecodable, 100: the fifth frame
\* gave a record, the undecodable sixth gave none although detect_shot held
\* on the window, and the seventh gave the record with frame_index 6 and
\* timestamp 3000.
C12_Witness ==
    /\ i[1] = 7
    /\ frames[1] = << 2, 2, 1, 2, 2, 3, 2 >>
    /\ Len(trajectory[1]) = 6
    /\ trajectory[1][6].timestamp = 3000
    /\ [k \in 1..Len(detected_shots[1]) |-> detected_shots[1][k].frame_index] = << 4, 6 >>
    /\ [k \in 1..Len(detected_shots[1]) |-> detected_shots[1][k].timestamp] = << 2000, 3000 >>

\* C13: detect_basketball_in_frame always returns (None or a pair, never
\* an error).  With a fault in its steps it returns None.  Without one: if
\* a circle was found it returns the centre of a circle of largest radius,
\* whatever the contours are; if none was found it returns the centroid
\* (m10/m00, m01/m00, cut to whole pixels) of a contour of maximum area
\* provided that area is > 100 and m00 # 0, and None in every other case.
C13_LocalizerResult ==
    (call.op = "detect_basketball_in_frame" /\ call.ret # <<>>) =>
        LET frame    == call.args[1]
            circles  == frame.circles
            contours == frame.contours
            r        == call.ret[1]
            Widest(k)  == \A j \in 1..Len(circles) : circles[j][3] <= circles[k][3]
            Biggest(k) == \A j \in 1..Len(contours) : contours[j].area <= contours[k].area
            Usable(k)  == contours[k].area > 100 /\ contours[k].m00 # 0
        IN  /\ Len(r) \in {0, 2}
            /\ frame.fault => r = <<>>
            /\ (~frame.fault /\ Len(circles) > 0) =>
                   \E k \in 1..Len(circles) :
                       Widest(k) /\ r = << circles[k][1], circles[k][2] >>
            /\ (~frame.fault /\ Len(circles) = 0 /\ r # <<>>) =>
                   \E k \in 1..Len(contours) :
                       /\ Biggest(k) /\ Usable(k)
                       /\ r[1] * contours[k].m00 <= contours[k].m10
                       /\ contours[k].m10 < (r[1] + 1) * contours[k].m00
                       /\ r[2] * contours[k].m00 <= contours[k].m01
                       /\ contours[k].m01 < (r[2] + 1) * contours[k].m00
            /\ (~frame.fault /\ Len(circles) = 0 /\ r = <<>>) =>
                   \/ Len(contours) = 0
                   \/ \E k \in 1..Len(contours) : Biggest(k) /\ ~Usable(k)

\* No circle, contours of area 101 and 200: the result is the centroid of
\* the second, (100/8, 44/8) cut to (12, 5).
C13_Witness ==
    /\ call.op = "detect_basketball_in_frame"
    /\ ~call.args[1].fault
    /\ call.args[1].circles = <<>>
    /\ call.args[1].contours =
           << [area |-> 101, m00 |-> 4, m10 |-> 14,  m01 |-> 30],
              [area |-> 200, m00 |-> 8, m10 |-> 100, m01 |-> 44] >>
    /\ call.ret = << <<12, 5>> >>

\* The frame decodes and the image operations find neither a circle nor a
\* contour in it, without a fault.
NoBall(frame_info) ==
    /\ frame_info.data # <<>>
    /\ frame_info.data[1].decodable
    /\ ~frame_info.data[1].image.fault
    /\ frame_info.data[1].image.circles = <<>>
    /\ frame_info.data[1].image.contours = <<>>

\* The number of frames without a ball that end the first n frames of s.
RECURSIVE TrailingNoBall(_, _)
TrailingNoBall(s, n) ==
    IF n = 0 \/ ~NoBall(FrameAt(s, n)) THEN 0 ELSE 1 + TrailingNoBall(s, n - 1)

\* C14: a decodable frame without a located ball leaves the window and the
\* last accepted position as they were, and detect_shot is evaluated on
\* that window: if it holds, one ShotRecord is appended for the frame, with
\* the previous last accepted position (scaled), the frame's default
\* timestamp and its index; if not, none is.  Hence when the last k frames
\* consumed had no ball and detect_shot holds on the window, the last k
\* records are those of these k frames, one each.
C14_NoBallRedetects ==
    /\ [][ \A s \in Sessions :
            (i'[s] = i[s] + 1 /\ NoBall(FrameAt(s, i[s] + 1))) =>
                LET t     == tracker[s]
                    shots == detected_shots[s]
                    f     == FrameAt(s, i[s] + 1)
                    p     == last_position[t]
                IN  /\ trajectory'[t] = trajectory[t]
                    /\ last_position'[t] = p
                    /\ ~DetectShot(trajectory[t]) => detected_shots'[s] = shots
                    /\ DetectShot(trajectory[t]) =>
                           /\ p # <<>>
                           /\ Len(detected_shots'[s]) = Len(shots) + 1
                           /\ SubSeq(detected_shots'[s], 1, Len(shots)) = shots
                           /\ LET r == detected_shots'[s][Len(shots) + 1]
                              IN  /\ r.frame_index = i[s]
                                  /\ r.timestamp = i[s] * 500
                                  /\ r.position.x.num * f.width[1] = p[1] * r.position.x.den
                                  /\ r.position.y.num * f.height[1] = p[2] * r.position.y.den
                                  /\ r.position.x.den > 0 /\ r.position.y.den > 0
          ]_vars
    /\ [](\A s \in Sessions :
            LET k     == TrailingNoBall(s, i[s])
                shots == detected_shots[s]
            IN  DetectShot(trajectory[tracker[s]]) =>
                    /\ Len(shots) >= k
                    /\ \A h \in 1..k :
                           shots[Len(shots) - k + h].frame_index = i[s] - k + h - 1)

\* The batch 100, 100, 40, 100, 100, then three frames without a ball: the
\* one reversal has given four records, at frames 4, 5, 6 and 7, the last
\* three with the position (240, 100) of the fifth frame.
C14_Witness ==
    /\ i[1] = 8
    /\ frames[1] = << 2, 2, 1, 2, 2, 4, 4, 4 >>
    /\ Len(trajectory[1]) = 5
    /\ [k \in 1..Len(detected_shots[1]) |-> detected_shots[1][k].frame_index]
           = << 4, 5, 6, 7 >>
    /\ \A k \in 2..4 :
           /\ detected_shots[1][k].position =
                  [x |-> [num |-> 1, den |-> 2], y |-> [num |-> 5, den |-> 18]]
           /\ detected_shots[1][k].timestamp = (k + 3) * 500

\* The frame's declared width or height is missing or zero.
BadDims(frame_info) ==
    \/ frame_info.width = <<>> \/ frame_info.height = <<>>
    \/ frame_info.width[1] = 0 \/ frame_info.height[1] = 0

\* The frame decodes to an image in which one circle is found.
OneCircle(frame_info) ==
    /\ frame_info.data # <<>>
    /\ frame_info.data[1].decodable
    /\ ~frame_info.data[1].image.fault
    /\ Len(frame_info.data[1].image.circles) = 1

\* The frames with one circle among the first n of session s.
CircleFrames(s, n) == { j \in 1..n : OneCircle(FrameAt(s, j)) }

\* C15: a frame after whose update detect_shot holds and whose width or
\* height is missing or zero appends no ShotRecord and does not stop the
\* loop, and its sample is kept: it is the newest sample of the window and
\* its position the last accepted one.  The window is at all times the
\* samples of all frames with a located ball, whatever their width and
\* height, and a decodable frame has a record exactly when detect_shot
\* holds on the window as it was after that frame and its width and height
\* are usable: so the sample of a failed frame counts for later frames as
\* that of any other.
C15_FailedFrameKeepsSample ==
    /\ [][ \A s \in Sessions :
            LET f == FrameAt(s, i[s] + 1)
                t == tracker[s]
            IN  ( /\ i'[s] = i[s] + 1
                  /\ f.data # <<>> /\ f.data[1].decodable
                  /\ BadDims(f)
                  /\ DetectShot(trajectory'[t]) ) =>
                    /\ detected_shots'[s] = detected_shots[s]
                    /\ pc'[s] = "loop"
                    /\ OneCircle(f) =>
                           LET c == f.data[1].image.circles[1]
                           IN  /\ trajectory'[t] =
                                      Append(trajectory[t],
                                             [position |-> << c[1], c[2] >>,
                                              timestamp |-> i[s] * 500,
                                              x |-> c[1], y |-> c[2]])
                               /\ last_position'[t] = << c[1], c[2] >>
          ]_vars
    /\ [](\A s \in Sessions :
            LET window == trajectory[tracker[s]]
            IN  /\ Len(window) = Cardinality(CircleFrames(s, i[s]))
                /\ \A j \in CircleFrames(s, i[s]) :
                       LET c == FrameAt(s, j).data[1].image.circles[1]
                           m == Cardinality(CircleFrames(s, j))
                       IN  window[m].position = << c[1], c[2] >>
                /\ \A j \in 1..i[s] :
                       HasRecordAt(s, j - 1) <=>
                           /\ FrameAt(s, j).data # <<>>
                           /\ FrameAt(s, j).data[1].decodable
                           /\ ~BadDims(FrameAt(s, j))
                           /\ DetectShot(SubSeq(window, 1,
                                                Cardinality(CircleFrames(s, j)))))

\* The batch 100, 100, 100, 40, then 100 in a frame without a width, then
\* 100: the fifth frame gave no record although detect_shot held, its
\* sample is the fifth of the window, and with it the sixth frame gave the
\* only record.
C15_Witness ==
    /\ i[1] = 6
    /\ frames[1] = << 2, 2, 2, 1, 7, 2 >>
    /\ DetectShot(SubSeq(trajectory[1], 1, 5))
    /\ trajectory[1][5] = [position |-> <<240, 100>>, timestamp |-> 2000,
                           x |-> 240, y |-> 100]
    /\ last_position[1] = <<240, 100>>
    /\ Len(detected_shots[1]) = 1
    /\ detected_shots[1][1].frame_index = 5

\* C16: at every point of the analyze loop the shot list is in strictly
\* increasing frame_index order, has at most one record per frame, every
\* frame_index is an index of the batch (and of a frame already consumed),
\* and there are at most as many records as frames consumed; a step never
\* removes or alters a record and adds at most one.
C16_ShotListOrdered ==
    /\ [](\A s \in Sessions :
            LET shots == detected_shots[s]
            IN  /\ \A k \in 1..(Len(shots) - 1) :
                       shots[k].frame_index < shots[k + 1].frame_index
                /\ \A idx \in 0..(Len(frames[s]) - 1) :
                       Cardinality({ k \in 1..Len(shots) : shots[k].frame_index = idx }) <= 1
                /\ \A k \in 1..Len(shots) :
                       /\ shots[k].frame_index \in 0..(Len(frames[s]) - 1)
                       /\ shots[k].frame_index < i[s]
                /\ Len(shots) <= i[s])
    /\ [][ \A s \in Sessions :
            /\ Len(detected_shots'[s]) >= Len(detected_shots[s])
            /\ Len(detected_shots'[s]) <= Len(detected_shots[s]) + 1
            /\ SubSeq(detected_shots'[s], 1, Len(detected_shots[s])) = detected_shots[s]
          ]_vars

\* The batch 100, 40, 100, 40, 100, 40, 100, 40 has been analyzed to the
\* end: four records, at frames 4, 5, 6 and 7, out of eight frames.
C16_Witness ==
    /\ pc[1] = "done"
    /\ frames[1] = << 2, 1, 2, 1, 2, 1, 2, 1 >>
    /\ i[1] = 8
    /\ [k \in 1..Len(detected_shots[1]) |-> detected_shots[1][k].frame_index]
           = << 4, 5, 6, 7 >>

\* C17: in every state of a tracker, last_position is None exactly when
\* the window is empty and is otherwise the position of the newest sample
\* of the window; so whenever detect_shot holds a last accepted position is
\* there, and in the analyze loop the test `if peak_position:` never keeps
\* a record back: a decodable frame after whose update detect_shot holds,
\* with usable width and height, always adds its record.
C17_LastPositionIsNewest ==
    /\ [](\A s \in Sessions :
            LET window == trajectory[tracker[s]]
                last   == last_position[tracker[s]]
            IN  /\ last = <<>> <=> window = <<>>
                /\ window # <<>> => last = window[Len(window)].position
                /\ DetectShot(window) => (last # <<>> /\ Len(last) = 2))
    /\ [][ \A s \in Sessions :
            LET f == FrameAt(s, i[s] + 1)
            IN  ( /\ i'[s] = i[s] + 1
                  /\ f.data # <<>> /\ f.data[1].decodable
                  /\ ~BadDims(f)
                  /\ DetectShot(trajectory'[tracker[s]]) ) =>
                    /\ Len(detected_shots'[s]) = Len(detected_shots[s]) + 1
                    /\ detected_shots'[s][Len(detected_shots'[s])].frame_index = i[s]
          ]_vars

\* The batch 100, 100, 40, 100, 100, then a frame without a ball: the last
\* accepted position is still that of the newest sample, (240, 100), and
\* the sixth frame has its record.
C17_Witness ==
    /\ i[1] = 6
    /\ frames[1] = << 2, 2, 1, 2, 2, 4 >>
    /\ Len(trajectory[1]) = 5
    /\ last_position[1] = <<240, 100>>
    /\ last_position[1] = trajectory[1][5].position
    /\ [k \in 1..Len(detected_shots[1]) |-> detected_shots[1][k].frame_index] = << 4, 5 >>

\* C18: after every update, detect_shot on the tracker's window (at most
\* 50 samples, the oldest evicted) has the value it has on the full history
\* of accepted samples, i.e. on a tracker that evicts nothing: both read
\* the same 5 newest samples.
C18_EvictionKeepsDetection ==
    LET window  == trajectory[1]
        history == reference[1]
    IN  /\ DetectShot(window) <=> DetectShot(history)
        /\ Len(history) >= 5 =>
               /\ Len(window) >= 5
               /\ SubSeq(window, Len(window) - 4, Len(window))
                      = SubSeq(history, Len(history) - 4, Len(history))

\* 53 samples accepted, three evicted, and the newest three (100, 40, 100)
\* make detect_shot hold on the window as on the history.
C18_Witness ==
    /\ Len(reference[1]) = 53
    /\ Len(trajectory[1]) = 50
    /\ trajectory[1][1] = reference[1][4]
    /\ [k \in 1..3 |-> trajectory[1][47 + k].y] = << 100, 40, 100 >>
    /\ DetectShot(trajectory[1])
    /\ DetectShot(reference[1])

=============================================================================
